---- MODULE Spec2Model ----
(***************************************************************************)
(* Model of the request-shaping core of gitbrainlab/context                *)
(* (src/core/python/context): ContextInput, Pruner, Router and Context.    *)
(*                                                                         *)
(* Encoding of Python values                                               *)
(*   Optional[T]   a sequence of length <= 1: <<>> is None, <<v>> is v     *)
(*   dict          a function whose DOMAIN is the set of keys present      *)
(*   float score   an integer in tenths (relevance 0.9 is 9) or in         *)
(*                 ten-thousandths (the cost column of MODEL_SPECS)        *)
(*   input data    [kind, src, len]: the Python type of the payload, the   *)
(*                 content it is a prefix of, and the length of the        *)
(*                 serialization _estimate_tokens measures                 *)
(*   nested value  a reference into heap (a list or dict held as a value   *)
(*                 of a metadata dict; two dicts holding the same          *)
(*                 reference share the object)                             *)
(*   datetime      an integer, the microseconds since the start of the run *)
(*   ISO string    [wellformed, secs, micros, offset]: what the text of    *)
(*                 isoformat() spells out                                  *)
(*   result        [ok |-> TRUE, ctx |-> c] for a returned Context,        *)
(*                 [ok |-> FALSE, error |-> e] for a raised exception      *)
(***************************************************************************)
EXTENDS Integers, Sequences, FiniteSets, TLC

VARIABLES ctxs, heap, nextId, last

vars == <<ctxs, heap, nextId, last>>

(* ------------------------------ bounds -------------------------------- *)

MaxInputs == 3

MaxCtx == 3

MaxCtxInputs == 1

(* ------------------------- program constants -------------------------- *)

CharsPerToken == 4

MinUsableTokens == 100

(* --------------------------- Python helpers --------------------------- *)

None == <<>>

Some(v) == <<v>>

TruthyInt(o) == o # None /\ o[1] # 0

TruthyStr(o) == o # None /\ o[1] # ""

OrInt(a, b) == IF TruthyInt(a) THEN a ELSE b

OrStr(a, b) == IF TruthyStr(a) THEN a ELSE b

DictGet(d, k) == IF k \in DOMAIN d THEN Some(d[k]) ELSE None

DictSet(d, k, v) == [x \in DOMAIN d \cup {k} |-> IF x = k THEN v ELSE d[x]]

DictUpdate(d, e) == [x \in DOMAIN d \cup DOMAIN e |-> IF x \in DOMAIN e THEN e[x] ELSE d[x]]

EmptyDict == [x \in {} |-> 0]

Min(a, b) == IF a <= b THEN a ELSE b

(* ----------------------------- ContextInput ---------------------------- *)

EstimateTokens(data) == data.len \div CharsPerToken

ContextInput(data, relevance, tokens) ==
    [data |-> data,
     relevance |-> relevance,
     tokens |-> OrInt(tokens, Some(EstimateTokens(data)))[1]]

RECURSIVE SumTokens(_)
SumTokens(inputs) ==
    IF inputs = <<>> THEN 0 ELSE Head(inputs).tokens + SumTokens(Tail(inputs))

(* -------------------------------- Pruner ------------------------------- *)

FilteredStrict(inputs, relevance_threshold) ==
    SelectSeq(inputs, LAMBDA inp : inp.relevance > relevance_threshold)

Filtered(inputs, relevance_threshold) ==
    SelectSeq(inputs, LAMBDA inp : inp.relevance >= relevance_threshold)

\* position at which sorted(key=relevance, reverse=True) places inp among the
\* already placed units: after every unit of greater or equal relevance
InsertPosUnstable(placed, inp) ==
    Cardinality({i \in 1..Len(placed) : placed[i].relevance > inp.relevance})

InsertPosAscending(placed, inp) ==
    Cardinality({i \in 1..Len(placed) : placed[i].relevance <= inp.relevance})

InsertPos(placed, inp) ==
    Cardinality({i \in 1..Len(placed) : placed[i].relevance >= inp.relevance})

RECURSIVE SortInto(_, _)
SortInto(placed, rest) ==
    IF rest = <<>> THEN placed
    ELSE LET inp == Head(rest)
             p == InsertPos(placed, inp)
         IN SortInto(SubSeq(placed, 1, p) \o <<inp>> \o SubSeq(placed, p + 1, Len(placed)),
                     Tail(rest))

SortedByRelevance(inputs) == SortInto(<<>>, inputs)

TruncateKeepAll(data, chars_to_keep) == data

Truncate(data, chars_to_keep) == [data EXCEPT !.len = Min(data.len, chars_to_keep)]

RECURSIVE TakeUntilLimitSkip(_, _, _, _)
TakeUntilLimitSkip(sorted_inputs, max_tokens, pruned, total_tokens) ==
    IF sorted_inputs = <<>> THEN pruned
    ELSE LET inp == Head(sorted_inputs)
         IN IF total_tokens + inp.tokens <= max_tokens
            THEN TakeUntilLimitSkip(Tail(sorted_inputs), max_tokens,
                                    Append(pruned, inp), total_tokens + inp.tokens)
            ELSE TakeUntilLimitSkip(Tail(sorted_inputs), max_tokens, pruned, total_tokens)

RECURSIVE TakeUntilLimitDefaultRelevance(_, _, _, _)
TakeUntilLimitDefaultRelevance(sorted_inputs, max_tokens, pruned, total_tokens) ==
    IF sorted_inputs = <<>> THEN pruned
    ELSE LET inp == Head(sorted_inputs)
             remaining_tokens == max_tokens - total_tokens
         IN IF total_tokens + inp.tokens <= max_tokens
            THEN TakeUntilLimitDefaultRelevance(Tail(sorted_inputs), max_tokens,
                                                Append(pruned, inp), total_tokens + inp.tokens)
            ELSE IF inp.data.kind = "str" /\ remaining_tokens > MinUsableTokens
                 THEN Append(pruned,
                             ContextInput(Truncate(inp.data, remaining_tokens * CharsPerToken),
                                          10, Some(remaining_tokens)))
                 ELSE pruned

RECURSIVE TakeUntilLimit(_, _, _, _)
TakeUntilLimit(sorted_inputs, max_tokens, pruned, total_tokens) ==
    IF sorted_inputs = <<>> THEN pruned
    ELSE LET inp == Head(sorted_inputs)
             remaining_tokens == max_tokens - total_tokens
         IN IF total_tokens + inp.tokens <= max_tokens
            THEN TakeUntilLimit(Tail(sorted_inputs), max_tokens,
                                Append(pruned, inp), total_tokens + inp.tokens)
            ELSE IF inp.data.kind = "str" /\ remaining_tokens > MinUsableTokens
                 THEN Append(pruned,
                             ContextInput(Truncate(inp.data, remaining_tokens * CharsPerToken),
                                          inp.relevance, Some(remaining_tokens)))
                 ELSE pruned

PrunerPrune(inputs, max_tokens, relevance_threshold) ==
    LET sorted_inputs == SortedByRelevance(Filtered(inputs, relevance_threshold))
    IN IF max_tokens = None THEN sorted_inputs
       ELSE TakeUntilLimit(sorted_inputs, max_tokens[1], <<>>, 0)

(* -------------------------------- Router ------------------------------- *)

\* MODEL_SPECS in the iteration order of the dict literal; cost_per_1k_input in
\* ten-thousandths of a dollar, quality and speed in hundredths
ModelOrder == <<"gpt-4", "gpt-3.5-turbo", "claude-3-opus", "claude-3-sonnet">>

MODEL_SPECS ==
    [m \in {"gpt-4", "gpt-3.5-turbo", "claude-3-opus", "claude-3-sonnet"} |->
        CASE m = "gpt-4" ->
               [provider |-> "openai", cost_per_1k_input |-> 300, quality |-> 95, speed |-> 60]
          [] m = "gpt-3.5-turbo" ->
               [provider |-> "openai", cost_per_1k_input |-> 15, quality |-> 75, speed |-> 90]
          [] m = "claude-3-opus" ->
               [provider |-> "anthropic", cost_per_1k_input |-> 150, quality |-> 95, speed |-> 70]
          [] m = "claude-3-sonnet" ->
               [provider |-> "anthropic", cost_per_1k_input |-> 30, quality |-> 85, speed |-> 85]]

\* Python's min(keys, key=...) and max(keys, key=...): the first key, in
\* iteration order, whose score no other key beats
FirstMin(score) ==
    LET i == CHOOSE i \in 1..Len(ModelOrder) :
                 /\ \A j \in 1..Len(ModelOrder) : score[ModelOrder[i]] <= score[ModelOrder[j]]
                 /\ \A j \in 1..(i - 1) : score[ModelOrder[j]] # score[ModelOrder[i]]
    IN ModelOrder[i]

FirstMax(score) ==
    LET i == CHOOSE i \in 1..Len(ModelOrder) :
                 /\ \A j \in 1..Len(ModelOrder) : score[ModelOrder[i]] >= score[ModelOrder[j]]
                 /\ \A j \in 1..(i - 1) : score[ModelOrder[j]] # score[ModelOrder[i]]
    IN ModelOrder[i]

SelectByStrategySwapped(strategy) ==
    CASE strategy = "cost_optimized" ->
           FirstMin([m \in DOMAIN MODEL_SPECS |-> MODEL_SPECS[m].cost_per_1k_input])
      [] strategy = "quality_optimized" ->
           FirstMax([m \in DOMAIN MODEL_SPECS |-> MODEL_SPECS[m].speed])
      [] strategy = "speed_optimized" ->
           FirstMax([m \in DOMAIN MODEL_SPECS |-> MODEL_SPECS[m].quality])
      [] OTHER -> "gpt-3.5-turbo"

SelectByStrategy(strategy) ==
    CASE strategy = "cost_optimized" ->
           FirstMin([m \in DOMAIN MODEL_SPECS |-> MODEL_SPECS[m].cost_per_1k_input])
      [] strategy = "quality_optimized" ->
           FirstMax([m \in DOMAIN MODEL_SPECS |-> MODEL_SPECS[m].quality])
      [] strategy = "speed_optimized" ->
           FirstMax([m \in DOMAIN MODEL_SPECS |-> MODEL_SPECS[m].speed])
      [] OTHER -> "gpt-3.5-turbo"

WithModelNoLookup(routing, model) ==
    IF TruthyStr(model) THEN DictSet(routing, "model", model[1]) ELSE routing

WithModel(routing, model) ==
    IF TruthyStr(model)
    THEN LET r1 == DictSet(routing, "model", model[1])
         IN IF model[1] \in DOMAIN MODEL_SPECS
            THEN DictSet(r1, "provider", MODEL_SPECS[model[1]].provider)
            ELSE r1
    ELSE routing

WithProviderIfAbsent(routing, provider) ==
    IF TruthyStr(provider) /\ "provider" \notin DOMAIN routing
    THEN DictSet(routing, "provider", provider[1])
    ELSE routing

WithProvider(routing, provider) ==
    IF TruthyStr(provider) THEN DictSet(routing, "provider", provider[1]) ELSE routing

WithStrategyAlways(routing, strategy) ==
    IF TruthyStr(strategy)
    THEN LET r1 == DictSet(routing, "model", SelectByStrategy(strategy[1]))
         IN IF r1["model"] \in DOMAIN MODEL_SPECS
            THEN DictSet(r1, "provider", MODEL_SPECS[r1["model"]].provider)
            ELSE r1
    ELSE routing

WithStrategyKeepProvider(routing, strategy) ==
    IF TruthyStr(strategy) /\ "model" \notin DOMAIN routing
    THEN LET r1 == DictSet(routing, "model", SelectByStrategy(strategy[1]))
         IN IF r1["model"] \in DOMAIN MODEL_SPECS /\ "provider" \notin DOMAIN r1
            THEN DictSet(r1, "provider", MODEL_SPECS[r1["model"]].provider)
            ELSE r1
    ELSE routing

WithStrategy(routing, strategy) ==
    IF TruthyStr(strategy) /\ "model" \notin DOMAIN routing
    THEN LET r1 == DictSet(routing, "model", SelectByStrategy(strategy[1]))
         IN IF r1["model"] \in DOMAIN MODEL_SPECS
            THEN DictSet(r1, "provider", MODEL_SPECS[r1["model"]].provider)
            ELSE r1
    ELSE routing

\* the mapping passed as current_routing, as it is when Router.route returns:
\* route works on current_routing.copy()
RouterRouteCurrent(current_routing, model, provider, strategy) == current_routing

RouterRoute(current_routing, model, provider, strategy) ==
    WithStrategy(WithProvider(WithModel(current_routing, model), provider), strategy)

(* -------------------------------- Context ------------------------------ *)

\* datetime.now(timezone.utc) as read by the n-th construction of the run, in
\* microseconds: the clock moves on between two constructions
ClockAt(n) == 1500000 * n

\* Context.__init__; uuid is the value uuid.uuid4() yields for this call, the
\* number of the construction
ContextNew(intent, category, constraints, routing, output, metadata, parent_id, context_id, uuid) ==
    [id |-> IF context_id # None THEN context_id[1] ELSE uuid,
     created_at |-> ClockAt(uuid),
     intent |-> intent,
     category |-> category,
     inputs |-> <<>>,
     constraints |-> constraints,
     routing |-> routing,
     output |-> output,
     metadata |-> metadata,
     parent_id |-> parent_id]

\* copy.deepcopy of a dict of nested values: every value is copied into a
\* fresh heap cell
KeyIndex(d) ==
    CHOOSE f \in [DOMAIN d -> 1..Cardinality(DOMAIN d)] :
        \A j, k \in DOMAIN d : j # k => f[j] # f[k]

DeepCopy(d, hp) == [k \in DOMAIN d |-> Len(hp) + KeyIndex(d)[k]]

HeapAfterCopy(d, hp) ==
    hp \o [i \in 1..Cardinality(DOMAIN d) |->
               hp[d[CHOOSE k \in DOMAIN d : KeyIndex(d)[k] = i]]]

\* what a reader of the context sees: the nested values themselves
View(c, hp) == [c EXCEPT !.metadata = [k \in DOMAIN c.metadata |-> hp[c.metadata[k]]]]

GetTotalTokens(c) == SumTokens(c.inputs)

ContextPruneLimitArgOnly(c, max_tokens) == max_tokens

ContextPruneLimit(c, max_tokens) ==
    OrInt(max_tokens, DictGet(c.constraints, "max_tokens"))

ContextPrune(c, max_tokens, relevance_threshold) ==
    [c EXCEPT !.inputs = PrunerPrune(c.inputs, ContextPruneLimit(c, max_tokens),
                                     relevance_threshold)]

ContextAddInputWithinLimit(c, data, relevance, tokens) ==
    LET inp == ContextInput(data, relevance, tokens)
    IN IF /\ "max_tokens" \in DOMAIN c.constraints
          /\ SumTokens(c.inputs) + inp.tokens > c.constraints["max_tokens"]
       THEN c
       ELSE [c EXCEPT !.inputs = Append(c.inputs, inp)]

ContextAddInput(c, data, relevance, tokens) ==
    [c EXCEPT !.inputs = Append(c.inputs, ContextInput(data, relevance, tokens))]

ContextRouteOnlyKeys(c, model, provider, strategy) ==
    [c EXCEPT !.routing =
        LET r == RouterRoute(c.routing, model, provider, strategy)
        IN [k \in DOMAIN r \cap {"model", "provider"} |-> r[k]]]

ContextRoute(c, model, provider, strategy) ==
    [c EXCEPT !.routing = DictUpdate(RouterRouteCurrent(c.routing, model, provider, strategy),
                                     RouterRoute(c.routing, model, provider, strategy))]

ApplyOverrides(child, kwargs) ==
    [f \in DOMAIN child |->
        IF f \in DOMAIN kwargs /\ f \notin {"category", "intent"} THEN kwargs[f] ELSE child[f]]

ContextExtendNoInputs(c, intent, kwargs, hp, uuid) ==
    ApplyOverrides(ContextNew(OrStr(intent, Some(c.intent))[1],
                              IF "category" \in DOMAIN kwargs THEN kwargs["category"] ELSE c.category,
                              c.constraints, c.routing, c.output,
                              DeepCopy(c.metadata, hp), Some(c.id), None, uuid), kwargs)

ContextExtend(c, intent, kwargs, hp, uuid) ==
    LET child == ContextNew(OrStr(intent, Some(c.intent))[1],
                            IF "category" \in DOMAIN kwargs THEN kwargs["category"] ELSE c.category,
                            c.constraints, c.routing, c.output,
                            DeepCopy(c.metadata, hp), Some(c.id), None, uuid)
    IN ApplyOverrides([child EXCEPT !.inputs = c.inputs], kwargs)

MergedMaxTokens(constraints, other) ==
    IF TruthyInt(DictGet(other, "max_tokens"))
    THEN IF "max_tokens" \in DOMAIN constraints
         THEN DictSet(constraints, "max_tokens", Min(constraints["max_tokens"], other["max_tokens"]))
         ELSE DictSet(constraints, "max_tokens", other["max_tokens"])
    ELSE constraints

ContextMergeDedup(c, other, hp, uuid) ==
    LET merged == ContextNew(c.intent, c.category, c.constraints, c.routing, c.output,
                             DeepCopy(c.metadata, hp), None, None, uuid)
        fresh == SelectSeq(other.inputs,
                           LAMBDA u : \A i \in 1..Len(c.inputs) : c.inputs[i] # u)
    IN [merged EXCEPT !.inputs = c.inputs \o fresh,
                      !.constraints = MergedMaxTokens(c.constraints, other.constraints),
                      !.routing = DictUpdate(c.routing, other.routing),
                      !.metadata = DictUpdate(merged.metadata, other.metadata)]

ContextMerge(c, other, hp, uuid) ==
    LET merged == ContextNew(c.intent, c.category, c.constraints, c.routing, c.output,
                             DeepCopy(c.metadata, hp), None, None, uuid)
    IN [merged EXCEPT !.inputs = c.inputs \o other.inputs,
                      !.constraints = MergedMaxTokens(c.constraints, other.constraints),
                      !.routing = DictUpdate(c.routing, other.routing),
                      !.metadata = DictUpdate(merged.metadata, other.metadata)]

(* ----------------------------- serialization -------------------------- *)

\* a returned value and a raised exception
Return(c) == [ok |-> TRUE, ctx |-> c]

Raise(e) == [ok |-> FALSE, error |-> e]

\* ContextInput.to_dict
ContextInputToDict(inp) ==
    [data |-> inp.data, relevance |-> inp.relevance, tokens |-> inp.tokens]

\* the payload None, which str() spells in four characters
NoData == [kind |-> "none", src |-> "", len |-> 4]

ContextInputFromDictReestimate(data) ==
    ContextInput(IF "data" \in DOMAIN data THEN data["data"] ELSE NoData,
                 IF "relevance" \in DOMAIN data THEN data["relevance"] ELSE 10,
                 None)

\* ContextInput.from_dict: the constructor runs again on what the dict holds
ContextInputFromDict(data) ==
    ContextInput(IF "data" \in DOMAIN data THEN data["data"] ELSE NoData,
                 IF "relevance" \in DOMAIN data THEN data["relevance"] ELSE 10,
                 DictGet(data, "tokens"))

\* datetime.isoformat() of a UTC datetime; the replace('Z', '+00:00') of
\* from_dict; and datetime.fromisoformat(), which raises ValueError (None
\* here) on a text that is no ISO date
IsoFormat(t) ==
    [wellformed |-> TRUE, secs |-> t \div 1000000, micros |-> t % 1000000, offset |-> "+00:00"]

ReplaceZ(text) == IF text.offset = "Z" THEN [text EXCEPT !.offset = "+00:00"] ELSE text

FromIsoFormat(text) ==
    IF text.wellformed /\ text.offset = "+00:00"
    THEN Some(text.secs * 1000000 + text.micros)
    ELSE None

\* Context.to_dict
ContextToDict(c) ==
    [id |-> c.id,
     intent |-> c.intent,
     category |-> c.category,
     inputs |-> [i \in 1..Len(c.inputs) |-> ContextInputToDict(c.inputs[i])],
     constraints |-> c.constraints,
     routing |-> c.routing,
     output |-> c.output,
     metadata |-> c.metadata,
     parent_id |-> c.parent_id,
     created_at |-> IsoFormat(c.created_at)]

\* Context.to_json: json.dumps writes out the nested values themselves
ToJson(c, hp) == ContextToDict(View(c, hp))

\* Context.from_dict
ContextFromDict(data, uuid) ==
    IF "intent" \notin DOMAIN data THEN Raise("KeyError")
    ELSE LET ctx == ContextNew(data["intent"],
                               IF "category" \in DOMAIN data THEN data["category"] ELSE None,
                               IF "constraints" \in DOMAIN data THEN data["constraints"] ELSE EmptyDict,
                               IF "routing" \in DOMAIN data THEN data["routing"] ELSE EmptyDict,
                               IF "output" \in DOMAIN data THEN data["output"] ELSE EmptyDict,
                               IF "metadata" \in DOMAIN data THEN data["metadata"] ELSE EmptyDict,
                               IF "parent_id" \in DOMAIN data THEN data["parent_id"] ELSE None,
                               DictGet(data, "id"), uuid)
             restored == IF "inputs" \in DOMAIN data
                         THEN [ctx EXCEPT !.inputs =
                                  [i \in 1..Len(data["inputs"]) |->
                                      ContextInputFromDict(data["inputs"][i])]]
                         ELSE ctx
         IN IF "created_at" \in DOMAIN data
            THEN LET t == FromIsoFormat(ReplaceZ(data["created_at"]))
                 IN IF t = None THEN Raise("ValueError")
                    ELSE Return([restored EXCEPT !.created_at = t[1]])
            ELSE Return(restored)

\* Context.from_json: json.loads builds the values the text spells out
FromJson(json_str, uuid) == ContextFromDict(json_str, uuid)

(* ------------------------------- Executor ------------------------------ *)

\* a dict held in an Optional is truthy when it is there and not empty
TruthyDict(o) == o # None /\ DOMAIN o[1] # {}

\* Executor._prepare_prompt: the system line when a system prompt is given,
\* the payload of every input in order, the task
PreparePrompt(context, request) ==
    [system |-> IF TruthyStr(request.system_prompt) THEN request.system_prompt ELSE None,
     inputs |-> [i \in 1..Len(context.inputs) |-> context.inputs[i].data],
     task |-> request.task]

\* Executor._execute_provider and what stands behind it: the stub returns its
\* placeholder text, an adapter that fails raises
ExecuteProvider(provider, model, prompt, routing, api_key, adapter) ==
    IF adapter = "stub"
    THEN [ok |-> TRUE, text |-> [stub |-> TRUE, provider |-> provider, model |-> model]]
    ELSE [ok |-> FALSE, error |-> adapter]

ExecRoutingContextWins(context, request) ==
    IF TruthyDict(request.override_routing)
    THEN DictUpdate(request.override_routing[1], context.routing)
    ELSE context.routing

\* routing of the call: context.routing.copy(), updated with override_routing
ExecRouting(context, request) ==
    IF TruthyDict(request.override_routing)
    THEN DictUpdate(context.routing, request.override_routing[1])
    ELSE context.routing

ExecutorContextAliased(context, request) ==
    [context EXCEPT !.routing = ExecRouting(context, request)]

\* the Context passed to Executor.execute, as it is when the call ends: its
\* fields are read, and the routing that is updated is a copy
ExecutorContext(context, request) == context

ExecutorExecuteSwallow(context, request, api_key, adapter, duration) ==
    LET routing == ExecRouting(context, request)
        model == IF "model" \in DOMAIN routing THEN routing["model"] ELSE "gpt-3.5-turbo"
        provider == IF "provider" \in DOMAIN routing THEN routing["provider"] ELSE "openai"
        prompt == PreparePrompt(context, request)
        result == ExecuteProvider(provider, model, prompt, routing, api_key, adapter)
    IN [ok |-> TRUE,
        calls |-> <<[provider |-> provider, model |-> model, prompt |-> prompt,
                     routing |-> routing, api_key |-> api_key]>>,
        response |-> [result |-> result,
                      context_id |-> context.id,
                      model_used |-> model,
                      provider_used |-> provider,
                      duration |-> duration,
                      metadata |-> [intent |-> context.intent,
                                    input_count |-> Len(context.inputs),
                                    total_input_tokens |-> GetTotalTokens(context)]]]

\* Executor.execute: calls is the list of the adapter invocations made; the
\* call returns the response, or raises what the adapter raised
ExecutorExecute(context, request, api_key, adapter, duration) ==
    LET routing == ExecRouting(context, request)
        model == IF "model" \in DOMAIN routing THEN routing["model"] ELSE "gpt-3.5-turbo"
        provider == IF "provider" \in DOMAIN routing THEN routing["provider"] ELSE "openai"
        prompt == PreparePrompt(context, request)
        result == ExecuteProvider(provider, model, prompt, routing, api_key, adapter)
        calls == <<[provider |-> provider, model |-> model, prompt |-> prompt,
                    routing |-> routing, api_key |-> api_key]>>
    IN IF result.ok
       THEN [ok |-> TRUE,
             calls |-> calls,
             response |-> [result |-> result.text,
                           context_id |-> context.id,
                           model_used |-> model,
                           provider_used |-> provider,
                           duration |-> duration,
                           metadata |-> [intent |-> context.intent,
                                         input_count |-> Len(context.inputs),
                                         total_input_tokens |-> GetTotalTokens(context)]]]
       ELSE [ok |-> FALSE, calls |-> calls, error |-> result.error]

\* Context.execute
ContextExecute(c, task, system_prompt, override_routing, api_key, adapter, duration) ==
    ExecutorExecute(c, [task |-> task, system_prompt |-> system_prompt,
                        override_routing |-> override_routing],
                    api_key, adapter, duration)

(* ---------------------------------- CLI -------------------------------- *)

\* MODEL_PRICING, in billionths of a dollar per token; a budget is an amount
\* in the same unit
MODEL_PRICING ==
    [m \in {"gpt-4o-mini", "gpt-4o", "gpt-4"} |->
        CASE m = "gpt-4o-mini" -> [input |-> 150, output |-> 600]
          [] m = "gpt-4o" -> [input |-> 2500, output |-> 10000]
          [] m = "gpt-4" -> [input |-> 30000, output |-> 60000]]

\* budget_to_max_tokens: int((budget_usd * 0.8) / (0.3 * input + 0.7 * output)),
\* with numerator and denominator multiplied by 10
budget_to_max_tokens(budget_usd, model) ==
    LET pricing == IF model \in DOMAIN MODEL_PRICING THEN MODEL_PRICING[model]
                   ELSE MODEL_PRICING["gpt-4o-mini"]
    IN (budget_usd * 8) \div (3 * pricing.input + 7 * pricing.output)

\* parse_prompt_hints; a prompt is the set of its lower-case words
parse_prompt_hints(prompt) ==
    IF prompt \cap {"plan", "planner", "planning", "schedule", "agenda"} # {}
    THEN [task_type |-> "planner", keywords |-> <<"planning">>]
    ELSE IF prompt \cap {"analyz", "analyze", "analysis", "examine", "inspect",
                         "investigate"} # {}
    THEN [task_type |-> "analysis", keywords |-> <<"analysis">>]
    ELSE IF prompt \cap {"build", "create", "generate", "make", "develop"} # {}
    THEN [task_type |-> "generation", keywords |-> <<"generation">>]
    ELSE IF prompt \cap {"summariz", "summarize", "summary", "brief", "overview"} # {}
    THEN [task_type |-> "summarization", keywords |-> <<"summarization">>]
    ELSE [task_type |-> "general", keywords |-> <<>>]

\* CopilotRunConfig(prompt, user, budget, instructions, instructions_file):
\* the budget validator, then model_post_init; env_model is what
\* os.getenv("COPILOT_MODEL") yields
CopilotRunConfig(prompt, user, budget, instructions, instructions_file, env_model, uuid) ==
    IF budget <= 0 THEN [ok |-> FALSE, error |-> "Budget must be greater than 0"]
    ELSE IF instructions # None /\ instructions_file # None
    THEN [ok |-> FALSE, error |-> "Cannot specify both --instructions and --instructions-file"]
    ELSE [ok |-> TRUE,
          config |-> [prompt |-> prompt,
                      user |-> user,
                      budget |-> budget,
                      instructions |-> instructions,
                      instructions_file |-> instructions_file,
                      prompt_id |-> uuid,
                      model |-> IF TruthyStr(env_model) THEN env_model[1] ELSE "gpt-4o-mini",
                      mode |-> "one_off",
                      prompt_hints |-> parse_prompt_hints(prompt)]]

\* pathlib.Path.read_text on the file system files (path -> content)
read_text(path, files) ==
    IF path \in DOMAIN files THEN [ok |-> TRUE, text |-> files[path]]
    ELSE [ok |-> FALSE, error |-> "FileNotFoundError"]

\* CopilotRunConfig.user_instructions
user_instructions(config, files) ==
    IF config.instructions # None THEN [ok |-> TRUE, value |-> config.instructions[1]]
    ELSE IF config.instructions_file # None
    THEN LET r == read_text(config.instructions_file[1], files)
         IN IF r.ok THEN [ok |-> TRUE, value |-> r.text]
            ELSE [ok |-> TRUE, value |-> ""]
    ELSE [ok |-> TRUE, value |-> ""]

(* -------------------------------- actions ------------------------------ *)

\* ctxs maps the handle of every Context object alive to its fields; last is
\* the record the observer of a specification keeps of the latest call

Handles == DOMAIN ctxs

NewHandle == Cardinality(Handles) + 1

Put(h, c) == [x \in Handles \cup {h} |-> IF x = h THEN c ELSE ctxs[x]]

\* ctx = Context(intent, constraints=..., routing=..., metadata=...)
Create(intent, constraints, routing, tags) ==
    LET metadata == IF tags THEN [k \in {"tags"} |-> Len(heap) + 1] ELSE EmptyDict
    IN /\ ctxs' = Put(NewHandle, ContextNew(intent, None, constraints, routing, EmptyDict,
                                            metadata, None, None, nextId))
       /\ heap' = IF tags THEN Append(heap, 0) ELSE heap
       /\ nextId' = nextId + 1

\* ctx.add_input(data, relevance, tokens)
AddInput(h, data, relevance, tokens) ==
    /\ ctxs' = Put(h, ContextAddInput(ctxs[h], data, relevance, tokens))
    /\ UNCHANGED <<heap, nextId>>

\* ctx.prune(max_tokens, relevance_threshold)
Prune(h, max_tokens, relevance_threshold) ==
    /\ ctxs' = Put(h, ContextPrune(ctxs[h], max_tokens, relevance_threshold))
    /\ UNCHANGED <<heap, nextId>>

\* ctx.route(model, provider, strategy)
Route(h, model, provider, strategy) ==
    /\ ctxs' = Put(h, ContextRoute(ctxs[h], model, provider, strategy))
    /\ UNCHANGED <<heap, nextId>>

\* child = ctx.extend(intent, **kwargs)
Extend(h, intent, kwargs) ==
    /\ ctxs' = Put(NewHandle, ContextExtend(ctxs[h], intent, kwargs, heap, nextId))
    /\ heap' = HeapAfterCopy(ctxs[h].metadata, heap)
    /\ nextId' = nextId + 1

\* merged = ctx.merge(other)
Merge(h, o) ==
    /\ ctxs' = Put(NewHandle, ContextMerge(ctxs[h], ctxs[o], heap, nextId))
    /\ heap' = HeapAfterCopy(ctxs[h].metadata, heap)
    /\ nextId' = nextId + 1

\* ctx = ctx.extend(intent, **kwargs): the caller keeps the child under the
\* name the parent had
ExtendRebind(h, intent, kwargs) ==
    /\ ctxs' = Put(h, ContextExtend(ctxs[h], intent, kwargs, heap, nextId))
    /\ heap' = HeapAfterCopy(ctxs[h].metadata, heap)
    /\ nextId' = nextId + 1

\* ctx = ctx.merge(other)
MergeRebind(h, o) ==
    /\ ctxs' = Put(h, ContextMerge(ctxs[h], ctxs[o], heap, nextId))
    /\ heap' = HeapAfterCopy(ctxs[h].metadata, heap)
    /\ nextId' = nextId + 1

\* Context.from_json(json_str): uuid4 is drawn when the document has no id
FromJsonCall(json_str) ==
    /\ nextId' = IF "intent" \in DOMAIN json_str /\ "id" \notin DOMAIN json_str
                 THEN nextId + 1 ELSE nextId
    /\ UNCHANGED <<ctxs, heap>>

\* ctx.execute(task, system_prompt, override_routing, api_key): the Context is
\* left as Executor.execute leaves it
Execute(h, task, system_prompt, override_routing, api_key) ==
    /\ ctxs' = [ctxs EXCEPT ![h] =
                    ExecutorContext(ctxs[h], [task |-> task, system_prompt |-> system_prompt,
                                              override_routing |-> override_routing])]
    /\ UNCHANGED <<heap, nextId>>

\* budget_to_max_tokens(budget_usd, model)
BudgetCall(budget_usd, model) ==
    UNCHANGED <<ctxs, heap, nextId>>

\* config = CopilotRunConfig(...); config.user_instructions: uuid4 is drawn
\* for prompt_id
ConfigCall(prompt, user, budget, instructions, instructions_file) ==
    /\ nextId' = nextId + 1
    /\ UNCHANGED <<ctxs, heap>>

\* the caller changes a nested metadata value in place, e.g.
\* ctx.metadata["tags"].append(x) and later .pop()
MutateNested(h, k) ==
    /\ heap' = [heap EXCEPT ![ctxs[h].metadata[k]] = 1 - @]
    /\ UNCHANGED <<ctxs, nextId>>

\* the observer: the call, its arguments, the context it was made on as it
\* was before the call (pre) and the handle of the Context it returned (ret)
Called(op, h, ret, args) ==
    last' = [op |-> op, h |-> h, ret |-> ret, args |-> args, pre |-> View(ctxs[h], heap)]

(* ----------------------------- input domains --------------------------- *)

StrA == [kind |-> "str", src |-> "A", len |-> 1000]

StrC == [kind |-> "str", src |-> "C", len |-> 200]

DictD == [kind |-> "dict", src |-> "D", len |-> 600]

DataSet == {StrA, StrC, DictD}

RelevanceSet == {5, 7, 9}

ThresholdSet == {0, 7}

MaxTokensArgSet == {None, Some(0), Some(100), Some(250)}

ConstraintsSet == {EmptyDict} \cup {[k \in {"max_tokens"} |-> n] : n \in {0, 100, 250}}

ModelArgSet == {None, Some("gpt-4"), Some("claude-3-sonnet"), Some("my-model")}

ProviderArgSet == {None, Some("azure")}

StrategyArgSet == {None, Some("cost_optimized"), Some("quality_optimized"),
                   Some("speed_optimized"), Some("balanced")}

RoutingSet == {EmptyDict, [k \in {"temperature"} |-> "0.7"],
               [k \in {"model"} |-> "claude-3-sonnet"],
               [k \in {"provider"} |-> "azure"]}

(* ------------------- Pruner and Context.prune alone -------------------- *)

\* one Context, built with or without a max_tokens constraint, on which
\* add_input and prune are called in any order

InitPrune ==
    /\ \E constraints \in ConstraintsSet :
          ctxs = [h \in {1} |->
                     ContextNew("analyze", None, constraints, [k \in {"temperature"} |-> "0.7"],
                                EmptyDict, [k \in {"tags"} |-> 1], None, None, 1)]
    /\ heap = <<0>>
    /\ nextId = 2
    /\ last = [op |-> "create", h |-> 1]

NextPrune ==
    \/ \E h \in Handles, data \in DataSet, relevance \in RelevanceSet, tokens \in {None, Some(0)} :
          /\ Len(ctxs[h].inputs) < MaxInputs
          /\ AddInput(h, data, relevance, tokens)
          /\ Called("add_input", h, h,
                    [data |-> data, relevance |-> relevance, tokens |-> tokens])
    \/ \E h \in Handles, max_tokens \in MaxTokensArgSet, t \in ThresholdSet :
          /\ Prune(h, max_tokens, t)
          /\ Called("prune", h, h, [max_tokens |-> max_tokens, relevance_threshold |-> t])

SpecPrune == InitPrune /\ [][NextPrune]_vars

(* ------------------------- claims: vocabulary -------------------------- *)

\* the context the last operation was called on, before and after the call
Before == last.pre

After == ctxs[last.h]

\* the bound a prune call has: the explicit argument when one is given, else
\* the max_tokens constraint, else none
StatedLimit == IF last.args.max_tokens # None THEN last.args.max_tokens
               ELSE DictGet(Before.constraints, "max_tokens")

\* the max_tokens a prune call hands to the Pruner: the argument unless it is
\* None or 0, else the max_tokens constraint, else none
HandedLimit == IF TruthyInt(last.args.max_tokens) THEN last.args.max_tokens
               ELSE DictGet(Before.constraints, "max_tokens")

IsNonIncreasing(s) == \A i \in 1..(Len(s) - 1) : s[i].relevance >= s[i + 1].relevance

OfRelevance(s, r) == SelectSeq(s, LAMBDA u : u.relevance = r)

\* u is v, or the truncated copy the Pruner makes of v
IsCopyOf(u, v) ==
    \/ u = v
    \/ /\ u.relevance = v.relevance
       /\ u.data.kind = v.data.kind
       /\ u.data.src = v.data.src
       /\ u.data.len <= v.data.len

\* units of equal relevance come in the order they had in old
KeepsTieOrder(new, old) ==
    \A r \in RelevanceSet :
        LET a == OfRelevance(new, r)
            b == OfRelevance(old, r)
        IN Len(a) <= Len(b) /\ \A i \in 1..Len(a) : IsCopyOf(a[i], b[i])

Count(s, u) == Cardinality({i \in 1..Len(s) : s[i] = u})

(* ------------------------------- claims -------------------------------- *)

\* C1 (as claimed): after every prune call that has a max_tokens bound (the
\* explicit argument, else the max_tokens constraint) the total tokens of the
\* context's inputs are at most that bound.
C1_TotalWithinStatedLimit ==
    (last.op = "prune" /\ StatedLimit # None) =>
        GetTotalTokens(After) <= StatedLimit[1]

\* C1, at the Pruner: whenever Pruner.prune is handed a max_tokens, the total
\* tokens of what it returns are at most max_tokens.
C1_PrunerWithinLimit ==
    \A h \in Handles, m \in MaxTokensArgSet, t \in ThresholdSet :
        m # None => SumTokens(PrunerPrune(ctxs[h].inputs, m, t)) <= m[1]

\* C2 (as claimed): Context.prune hands the Pruner the explicit max_tokens
\* argument whenever one is given (0 included), else the max_tokens constraint,
\* else no limit, and the inputs become the Pruner's result.
C2_ExplicitLimitWins ==
    last.op = "prune" =>
        After.inputs = PrunerPrune(Before.inputs, StatedLimit, last.args.relevance_threshold)

\* C3: after a prune with threshold t every input has relevance >= t; and when
\* the call has no max_tokens bound, every unit of relevance >= t that was in
\* the inputs is still there, as often as before.
C3_ThresholdOnly ==
    last.op = "prune" =>
        /\ \A i \in 1..Len(After.inputs) :
              After.inputs[i].relevance >= last.args.relevance_threshold
        /\ StatedLimit = None =>
              \A i \in 1..Len(Before.inputs) :
                  Before.inputs[i].relevance >= last.args.relevance_threshold =>
                      Count(After.inputs, Before.inputs[i]) = Count(Before.inputs, Before.inputs[i])

C3_Witness ==
    /\ last.op = "prune"
    /\ StatedLimit = None
    /\ last.args.relevance_threshold = 7
    /\ \E i \in 1..Len(Before.inputs) : Before.inputs[i].relevance < 7
    /\ \E i \in 1..Len(Before.inputs) : Before.inputs[i].relevance = 7
    /\ Len(After.inputs) = 2

\* C4: add_input puts the new unit after the ones already there (so inputs
\* are in insertion order until a prune), and right after a prune the inputs
\* are in non-increasing relevance order with units of equal relevance in
\* the order they had before the call.
C4_InsertionThenRelevanceOrder ==
    /\ last.op = "add_input" =>
          /\ Len(After.inputs) = Len(Before.inputs) + 1
          /\ SubSeq(After.inputs, 1, Len(Before.inputs)) = Before.inputs
          /\ After.inputs[Len(After.inputs)].data = last.args.data
    /\ last.op = "prune" =>
          /\ IsNonIncreasing(After.inputs)
          /\ KeepsTieOrder(After.inputs, Before.inputs)

C4_Witness ==
    /\ last.op = "prune"
    /\ Len(After.inputs) = 3
    /\ ~IsNonIncreasing(Before.inputs)
    /\ \E i, j \in 1..3 : /\ i < j
                          /\ After.inputs[i].relevance = After.inputs[j].relevance
                          /\ After.inputs[i].data # After.inputs[j].data

\* C5: without max_tokens pruning is idempotent: for every input sequence x
\* a context can hold and every threshold t, prune(prune(x, t), t) is the
\* same sequence as prune(x, t).
C5_IdempotentWithoutLimit ==
    \A h \in Handles, t \in ThresholdSet :
        LET once == PrunerPrune(ctxs[h].inputs, None, t)
        IN PrunerPrune(once, None, t) = once

C5_Witness ==
    /\ last.op = "prune"
    /\ StatedLimit = None
    /\ After.inputs # Before.inputs
    /\ Len(After.inputs) >= 2
    /\ After.inputs[1].relevance = After.inputs[2].relevance
    /\ After.inputs[1].data # After.inputs[2].data
    /\ PrunerPrune(After.inputs, None, last.args.relevance_threshold) = After.inputs

\* the length of the longest prefix of s whose running token total stays
\* within m; tokens are >= 0, so the prefixes that fit are the ones up to it
LongestFit(s, m) ==
    Cardinality({k \in 1..Len(s) : SumTokens(SubSeq(s, 1, k)) <= m})

\* C21: every prune call that hands the Pruner a bound m leaves the longest
\* prefix of the relevance-sorted survivors whose running total stays <= m,
\* or that prefix followed by one truncated copy of the unit that comes next,
\* and nothing else: no unit after the first one that does not fit is kept.
C21_PrefixThenOneTruncated ==
    (last.op = "prune" /\ HandedLimit # None) =>
            LET s == SortedByRelevance(Filtered(Before.inputs, last.args.relevance_threshold))
                r == After.inputs
                k == LongestFit(s, HandedLimit[1])
            IN \/ r = SubSeq(s, 1, k)
               \/ /\ k < Len(s)
                  /\ Len(r) = k + 1
                  /\ SubSeq(r, 1, k) = SubSeq(s, 1, k)
                  /\ r[k + 1] # s[k + 1]
                  /\ IsCopyOf(r[k + 1], s[k + 1])

\* a prune with max_tokens = 100 of a 50-token unit, a 250-token unit and a
\* 50-token unit, in this order of relevance: the third would fit and is
\* dropped
C21_Witness ==
    /\ last.op = "prune"
    /\ last.args.max_tokens = Some(100)
    /\ last.args.relevance_threshold = 0
    /\ LET s == SortedByRelevance(Before.inputs)
       IN /\ Len(s) = 3
          /\ s[1].tokens = 50
          /\ s[2].tokens = 250
          /\ s[3].tokens = 50
          /\ s[1].relevance > s[2].relevance
          /\ After.inputs = <<s[1]>>

\* C22: in every prune call that hands the Pruner a bound m, the first unit u
\* that does not fit is added as a truncated copy exactly when its content is
\* text and the remaining budget (m minus the running total) is > 100; the
\* copy has u's relevance, the first remaining * 4 characters of u's content
\* and tokens equal to the remaining budget, and the total tokens of the
\* result are then m; otherwise u is not added at all.
C22_TruncatedCopy ==
    (last.op = "prune" /\ HandedLimit # None) =>
            LET m == HandedLimit
                s == SortedByRelevance(Filtered(Before.inputs, last.args.relevance_threshold))
                r == After.inputs
                k == LongestFit(s, m[1])
                remaining == m[1] - SumTokens(SubSeq(s, 1, k))
            IN k < Len(s) =>
                  IF s[k + 1].data.kind = "str" /\ remaining > 100
                  THEN /\ Len(r) = k + 1
                       /\ r[k + 1].relevance = s[k + 1].relevance
                       /\ r[k + 1].data.kind = "str"
                       /\ r[k + 1].data.src = s[k + 1].data.src
                       /\ r[k + 1].data.len = Min(s[k + 1].data.len, remaining * 4)
                       /\ r[k + 1].tokens = remaining
                       /\ SumTokens(r) = m[1]
                  ELSE r = SubSeq(s, 1, k)

\* a prune with max_tokens = 250 that keeps a 50-token unit and truncates a
\* text of 1000 characters to its first 800
C22_Witness ==
    /\ last.op = "prune"
    /\ last.args.max_tokens = Some(250)
    /\ Len(Before.inputs) >= 2
    /\ Len(After.inputs) = 2
    /\ After.inputs[1].tokens = 50
    /\ After.inputs[2].data = [kind |-> "str", src |-> "A", len |-> 800]
    /\ After.inputs[2].tokens = 200
    /\ \E i \in 1..Len(Before.inputs) :
          /\ Before.inputs[i].data = StrA
          /\ Before.inputs[i].relevance = After.inputs[2].relevance
    /\ GetTotalTokens(After) = 250

\* a prune with max_tokens = 250 that keeps a 150-token unit and leaves out
\* the text that comes next, the remaining budget being 100
C22_WitnessFloor ==
    /\ last.op = "prune"
    /\ last.args.max_tokens = Some(250)
    /\ last.args.relevance_threshold = 0
    /\ Len(Before.inputs) = 2
    /\ Before.inputs[1].tokens = 150
    /\ Before.inputs[1].relevance > Before.inputs[2].relevance
    /\ Before.inputs[2].data = StrA
    /\ After.inputs = <<Before.inputs[1]>>

\* C27: with a token bound pruning is idempotent: after every prune call that
\* hands the Pruner a bound m >= 0, with any threshold t, pruning the pruned
\* sequence again with m and t gives the same units, with the same tokens, in
\* the same order; this holds of Pruner.prune and of Context.prune.
C27_IdempotentWithLimit ==
    (last.op = "prune" /\ HandedLimit # None) =>
        /\ PrunerPrune(After.inputs, HandedLimit, last.args.relevance_threshold) = After.inputs
        /\ ContextPrune(After, last.args.max_tokens, last.args.relevance_threshold) = After

\* a second prune(max_tokens=250) of a context whose first prune had cut a text
\* to 800 characters: the two units stay as they are
C27_Witness ==
    /\ last.op = "prune"
    /\ last.args.max_tokens = Some(250)
    /\ Len(Before.inputs) = 2
    /\ Before.inputs[2].data = [kind |-> "str", src |-> "A", len |-> 800]
    /\ Before.inputs[2].tokens = 200
    /\ Before.inputs[1].relevance > Before.inputs[2].relevance
    /\ After.inputs = Before.inputs

\* the scenario of test_pruning: prune() was called, with no argument, on a
\* Context with max_tokens = 100 that held three text inputs of 50 tokens
\* with the relevances 0.9, 0.7 and 0.5
Scenario50x3 ==
    /\ last.op = "prune"
    /\ last.args.max_tokens = None
    /\ last.args.relevance_threshold = 0
    /\ Before.constraints = [k \in {"max_tokens"} |-> 100]
    /\ Len(Before.inputs) = 3
    /\ \A i \in 1..3 : Before.inputs[i].data.kind = "str" /\ Before.inputs[i].tokens = 50
    /\ {Before.inputs[i].relevance : i \in 1..3} = {9, 7, 5}

\* the input of the scenario that has relevance r
ScenarioUnit(r) == Before.inputs[CHOOSE i \in 1..3 : Before.inputs[i].relevance = r]

\* C23 (as claimed): in the scenario the result holds the 0.9 input followed
\* by a truncated copy of the 0.7 input, or the 0.9 input alone; the 0.5
\* input is dropped and the total tokens are <= 100.
C23_ScenarioTruncated ==
    Scenario50x3 =>
        /\ \/ After.inputs = <<ScenarioUnit(9)>>
           \/ /\ Len(After.inputs) = 2
              /\ After.inputs[1] = ScenarioUnit(9)
              /\ After.inputs[2] # ScenarioUnit(7)
              /\ IsCopyOf(After.inputs[2], ScenarioUnit(7))
        /\ \A i \in 1..Len(After.inputs) : After.inputs[i].relevance # 5
        /\ GetTotalTokens(After) <= 100

\* C23 (amended): in the scenario the result holds the 0.9 input followed by
\* the 0.7 input, both whole; the 0.5 input is dropped and the total tokens
\* are 100.
C23_ScenarioKeepsTwoWhole ==
    Scenario50x3 =>
        /\ After.inputs = <<ScenarioUnit(9), ScenarioUnit(7)>>
        /\ GetTotalTokens(After) = 100

\* the scenario with the inputs added in another order than that of their
\* relevance
C23_Witness ==
    /\ Scenario50x3
    /\ Before.inputs[1].relevance # 9
    /\ Len(After.inputs) = 2
    /\ After.inputs[2].data.len = 200

(* --------------------- Router and Context.route alone ------------------ *)

\* one Context, built with one of the routings of RoutingSet, on which route
\* is called with every combination of arguments

InitRoute ==
    /\ \E routing \in RoutingSet :
          ctxs = [h \in {1} |-> ContextNew("generate", None, EmptyDict, routing, EmptyDict,
                                           EmptyDict, None, None, 1)]
    /\ heap = <<>>
    /\ nextId = 2
    /\ last = [op |-> "create", h |-> 1]

NextRoute ==
    \E h \in Handles, model \in ModelArgSet, provider \in ProviderArgSet,
       strategy \in StrategyArgSet :
          /\ Route(h, model, provider, strategy)
          /\ Called("route", h, h,
                    [model |-> model, provider |-> provider, strategy |-> strategy])

SpecRoute == InitRoute /\ [][NextRoute]_vars

\* C6 (as claimed): after route(strategy="cost_optimized") routing.model is the
\* table entry of minimal cost_per_1k_input, and after
\* route(strategy="quality_optimized") it is an entry of maximal quality,
\* whatever the routing held before the call.
C6_StrategyAlwaysSelects ==
    (last.op = "route" /\ last.args.model = None /\ last.args.provider = None) =>
        /\ last.args.strategy = Some("cost_optimized") =>
              /\ "model" \in DOMAIN After.routing
              /\ After.routing["model"] \in DOMAIN MODEL_SPECS
              /\ \A m \in DOMAIN MODEL_SPECS :
                    MODEL_SPECS[After.routing["model"]].cost_per_1k_input
                        <= MODEL_SPECS[m].cost_per_1k_input
        /\ last.args.strategy = Some("quality_optimized") =>
              /\ "model" \in DOMAIN After.routing
              /\ After.routing["model"] \in DOMAIN MODEL_SPECS
              /\ \A m \in DOMAIN MODEL_SPECS :
                    MODEL_SPECS[After.routing["model"]].quality >= MODEL_SPECS[m].quality

\* C6 (amended): the same, for every call on a routing that holds no model
\* and with no model argument; the minimal-cost entry is gpt-3.5-turbo.
C6_StrategySelectsWhenNoModel ==
    (last.op = "route" /\ last.args.model = None /\ "model" \notin DOMAIN Before.routing) =>
        /\ last.args.strategy = Some("cost_optimized") =>
              /\ "model" \in DOMAIN After.routing
              /\ After.routing["model"] = "gpt-3.5-turbo"
              /\ \A m \in DOMAIN MODEL_SPECS :
                    MODEL_SPECS[After.routing["model"]].cost_per_1k_input
                        <= MODEL_SPECS[m].cost_per_1k_input
        /\ last.args.strategy = Some("quality_optimized") =>
              /\ "model" \in DOMAIN After.routing
              /\ After.routing["model"] \in DOMAIN MODEL_SPECS
              /\ \A m \in DOMAIN MODEL_SPECS :
                    MODEL_SPECS[After.routing["model"]].quality >= MODEL_SPECS[m].quality

C6_Witness ==
    /\ last.op = "route"
    /\ last.args.model = None
    /\ "model" \notin DOMAIN Before.routing
    /\ "provider" \in DOMAIN Before.routing
    /\ last.args.strategy = Some("quality_optimized")
    /\ After.routing["model"] = "gpt-4"

\* C7: whenever route resolves a model by strategy (the routing holds no model
\* once the model and provider arguments are applied), the model is the
\* highest-speed entry for speed_optimized and gpt-3.5-turbo for a strategy
\* that is none of the three named ones, and routing.provider becomes that
\* model's table provider, replacing a provider the routing held or the call
\* gave.
C7_ResolvedByStrategy ==
    (/\ last.op = "route"
     /\ TruthyStr(last.args.strategy)
     /\ ~TruthyStr(last.args.model)
     /\ "model" \notin DOMAIN Before.routing) =>
        /\ "model" \in DOMAIN After.routing
        /\ last.args.strategy = Some("speed_optimized") =>
              \A m \in DOMAIN MODEL_SPECS :
                  MODEL_SPECS[After.routing["model"]].speed >= MODEL_SPECS[m].speed
        /\ last.args.strategy[1] \notin {"cost_optimized", "quality_optimized", "speed_optimized"} =>
              After.routing["model"] = "gpt-3.5-turbo"
        /\ "provider" \in DOMAIN After.routing
        /\ After.routing["provider"] = MODEL_SPECS[After.routing["model"]].provider

C7_Witness ==
    /\ last.op = "route"
    /\ last.args.strategy = Some("balanced")
    /\ last.args.provider = Some("azure")
    /\ "provider" \in DOMAIN Before.routing
    /\ "model" \notin DOMAIN Before.routing
    /\ After.routing["model"] = "gpt-3.5-turbo"
    /\ After.routing["provider"] = "openai"

\* C24: when route is given a strategy while the routing already holds a model,
\* or together with a model argument, the strategy has no effect:
\* routing.model and routing.provider are what the model and provider
\* arguments alone make them.
C24_StrategySkipped ==
    (/\ last.op = "route"
     /\ TruthyStr(last.args.strategy)
     /\ ("model" \in DOMAIN Before.routing \/ TruthyStr(last.args.model))) =>
        /\ "model" \in DOMAIN After.routing
        /\ After.routing["model"] = IF TruthyStr(last.args.model)
                                    THEN last.args.model[1]
                                    ELSE Before.routing["model"]
        /\ IF TruthyStr(last.args.provider)
           THEN /\ "provider" \in DOMAIN After.routing
                /\ After.routing["provider"] = last.args.provider[1]
           ELSE IF TruthyStr(last.args.model) /\ last.args.model[1] \in DOMAIN MODEL_SPECS
           THEN /\ "provider" \in DOMAIN After.routing
                /\ After.routing["provider"] = MODEL_SPECS[last.args.model[1]].provider
           ELSE /\ ("provider" \in DOMAIN After.routing) = ("provider" \in DOMAIN Before.routing)
                /\ "provider" \in DOMAIN Before.routing =>
                      After.routing["provider"] = Before.routing["provider"]

\* route(strategy="cost_optimized") on a routing that holds the model
\* claude-3-sonnet and no provider leaves the routing as it was
C24_Witness ==
    /\ last.op = "route"
    /\ last.args = [model |-> None, provider |-> None, strategy |-> Some("cost_optimized")]
    /\ Before.routing = [k \in {"model"} |-> "claude-3-sonnet"]
    /\ After.routing = Before.routing

\* C25: route called with both a model and a provider leaves routing.model
\* equal to the given model and routing.provider equal to the given provider,
\* also for a model whose table provider is another one.
C25_GivenProviderWins ==
    (/\ last.op = "route"
     /\ TruthyStr(last.args.model)
     /\ TruthyStr(last.args.provider)) =>
        /\ {"model", "provider"} \subseteq DOMAIN After.routing
        /\ After.routing["model"] = last.args.model[1]
        /\ After.routing["provider"] = last.args.provider[1]

\* route(model="gpt-4", provider="azure"): the table says openai, the routing
\* says azure
C25_Witness ==
    /\ last.op = "route"
    /\ last.args.model = Some("gpt-4")
    /\ last.args.provider = Some("azure")
    /\ "provider" \notin DOMAIN Before.routing
    /\ MODEL_SPECS["gpt-4"].provider = "openai"
    /\ After.routing["model"] = "gpt-4"
    /\ After.routing["provider"] = "azure"

\* C26: every route call returns the Context; a model that is not in the table
\* becomes routing.model while routing.provider stays as it was (absent or the
\* same value) unless a provider is given; keys other than model and provider
\* are kept with their values and no other key appears; a call with no
\* argument leaves the routing as it was.
C26_PassThrough ==
    last.op = "route" =>
        /\ last.ret = last.h
        /\ DOMAIN After.routing \subseteq DOMAIN Before.routing \cup {"model", "provider"}
        /\ \A k \in DOMAIN Before.routing :
              /\ k \in DOMAIN After.routing
              /\ k \notin {"model", "provider"} => After.routing[k] = Before.routing[k]
        /\ (TruthyStr(last.args.model) /\ last.args.model[1] \notin DOMAIN MODEL_SPECS) =>
              /\ "model" \in DOMAIN After.routing
              /\ After.routing["model"] = last.args.model[1]
              /\ last.args.provider = None =>
                    /\ ("provider" \in DOMAIN After.routing)
                           = ("provider" \in DOMAIN Before.routing)
                    /\ "provider" \in DOMAIN Before.routing =>
                          After.routing["provider"] = Before.routing["provider"]
        /\ (last.args.model = None /\ last.args.provider = None /\ last.args.strategy = None)
              => After.routing = Before.routing

\* route(model="my-model") on a routing that holds only a temperature
C26_Witness ==
    /\ last.op = "route"
    /\ last.args = [model |-> Some("my-model"), provider |-> None, strategy |-> None]
    /\ Before.routing = [k \in {"temperature"} |-> "0.7"]
    /\ After.routing = [k \in {"temperature", "model"} |->
                            IF k = "model" THEN "my-model" ELSE "0.7"]

\* a route call with no argument on a routing that holds a provider
C26_WitnessNoArgs ==
    /\ last.op = "route"
    /\ last.args = [model |-> None, provider |-> None, strategy |-> None]
    /\ "provider" \in DOMAIN Before.routing
    /\ After.routing = Before.routing

(* ------------------- route calls that name no provider ----------------- *)

\* one Context created with empty routing, on which route is called with a
\* model of MODEL_SPECS or none, a strategy or none, and never a provider

TableModelArgSet == {None} \cup {Some(m) : m \in DOMAIN MODEL_SPECS}

InitTable ==
    /\ ctxs = [h \in {1} |-> ContextNew("generate", None, EmptyDict, EmptyDict, EmptyDict,
                                        EmptyDict, None, None, 1)]
    /\ heap = <<>>
    /\ nextId = 2
    /\ last = [op |-> "create", h |-> 1]

NextTable ==
    \E h \in Handles, model \in TableModelArgSet, strategy \in StrategyArgSet :
          /\ Route(h, model, None, strategy)
          /\ Called("route", h, h,
                    [model |-> model, provider |-> None, strategy |-> strategy])

SpecTable == InitTable /\ [][NextTable]_vars

\* C28: after any sequence of such calls, a routing that holds a model holds
\* a provider too, and it is the provider MODEL_SPECS gives for that model.
C28_ModelAndProviderCohere ==
    \A h \in Handles :
        "model" \in DOMAIN ctxs[h].routing =>
            /\ ctxs[h].routing["model"] \in DOMAIN MODEL_SPECS
            /\ "provider" \in DOMAIN ctxs[h].routing
            /\ ctxs[h].routing["provider"] = MODEL_SPECS[ctxs[h].routing["model"]].provider

\* a routing resolved to gpt-3.5-turbo / openai by a strategy is then moved to
\* claude-3-opus / anthropic by a model argument
C28_Witness ==
    /\ last.op = "route"
    /\ last.args.model = Some("claude-3-opus")
    /\ "model" \in DOMAIN Before.routing
    /\ Before.routing["model"] = "gpt-3.5-turbo"
    /\ Before.routing["provider"] = "openai"
    /\ After.routing["model"] = "claude-3-opus"
    /\ After.routing["provider"] = "anthropic"

(* ------------------------------ extend alone --------------------------- *)

\* a first Context that receives inputs, and extend called on it and on its
\* descendants, with or without an intent

InitExtend ==
    /\ \E constraints \in {EmptyDict, [k \in {"max_tokens"} |-> 100]} :
          ctxs = [h \in {1} |->
                     ContextNew("analyze", None, constraints, [k \in {"temperature"} |-> "0.7"],
                                EmptyDict, [k \in {"tags"} |-> 1], None, None, 1)]
    /\ heap = <<0>>
    /\ nextId = 2
    /\ last = [op |-> "create", h |-> 1]

NextExtend ==
    \/ \E h \in {1}, data \in {StrC, DictD} :
          /\ Len(ctxs[h].inputs) < MaxInputs
          /\ AddInput(h, data, 9, None)
          /\ Called("add_input", h, h, [data |-> data, relevance |-> 9, tokens |-> None])
    \/ \E h \in Handles, intent \in {None, Some("summarize")} :
          /\ NewHandle <= MaxCtx
          /\ Extend(h, intent, EmptyDict)
          /\ Called("extend", h, NewHandle, [intent |-> intent, kwargs |-> EmptyDict])

SpecExtend == InitExtend /\ [][NextExtend]_vars

\* C8: add_input never rejects a unit: the context's inputs become the old
\* inputs followed by the new unit, whatever max_tokens the constraints hold,
\* every other field keeps its value and the call returns the same Context.
C8_AddInputAppends ==
    last.op = "add_input" =>
        /\ View(After, heap) =
              [Before EXCEPT !.inputs = Append(Before.inputs,
                   ContextInput(last.args.data, last.args.relevance, last.args.tokens))]
        /\ last.ret = last.h

\* a context whose total tokens exceed its max_tokens right after add_input
C8_Witness ==
    /\ last.op = "add_input"
    /\ Len(Before.inputs) >= 1
    /\ "max_tokens" \in DOMAIN After.constraints
    /\ GetTotalTokens(Before) <= After.constraints["max_tokens"]
    /\ GetTotalTokens(After) > After.constraints["max_tokens"]
    /\ After.routing = Before.routing
    /\ DOMAIN After.metadata = {"tags"}

\* C9: extend(intent=i) returns a child whose parent_id is the parent's id,
\* whose intent is i, or the parent's intent when i is omitted, whose id is
\* not the parent's id, and whose inputs and constraints equal the parent's.
C9_ExtendInherits ==
    last.op = "extend" =>
        LET child == ctxs[last.ret]
            parent == Before
        IN /\ child.parent_id = Some(parent.id)
           /\ child.intent = IF last.args.intent = None THEN parent.intent
                             ELSE last.args.intent[1]
           /\ child.id # parent.id
           /\ child.inputs = parent.inputs
           /\ child.constraints = parent.constraints

C9_Witness ==
    /\ last.op = "extend"
    /\ last.args.intent = Some("summarize")
    /\ Before.intent = "analyze"
    /\ Len(Before.inputs) = 2
    /\ Before.inputs[1] # Before.inputs[2]
    /\ "max_tokens" \in DOMAIN Before.constraints
    /\ ctxs[last.ret].intent = "summarize"
    /\ Len(ctxs[last.ret].inputs) = 2

\* C14 (as claimed): the unit add_input creates has the tokens given in the
\* call whenever a value is given (0 included), and else the length of the
\* serialization of its data divided by 4, rounded down.
C14_TokensAsSupplied ==
    last.op = "add_input" =>
        After.inputs[Len(After.inputs)].tokens =
            IF last.args.tokens # None THEN last.args.tokens[1]
            ELSE last.args.data.len \div 4

(* ------------------------------ merge alone ---------------------------- *)

\* two Contexts built with any of the constraints of ConstraintsSet, which
\* receive inputs and are merged, with each other, with themselves and with
\* the results of earlier merges

InitMerge ==
    /\ \E ca, cb \in ConstraintsSet :
          ctxs = [h \in {1, 2} |->
                     IF h = 1
                     THEN ContextNew("analyze", None, ca, [k \in {"temperature"} |-> "0.7"],
                                     EmptyDict, EmptyDict, None, None, 1)
                     ELSE ContextNew("summarize", None, cb, [k \in {"model"} |-> "gpt-4"],
                                     EmptyDict, EmptyDict, None, None, 2)]
    /\ heap = <<>>
    /\ nextId = 3
    /\ last = [op |-> "create", h |-> 2]

NextMerge ==
    \/ \E h \in {1, 2}, data \in {StrC, DictD} :
          /\ Len(ctxs[h].inputs) < MaxCtxInputs
          /\ AddInput(h, data, 9, None)
          /\ Called("add_input", h, h, [data |-> data, relevance |-> 9, tokens |-> None])
    \/ \E h, o \in Handles :
          /\ NewHandle <= MaxCtx
          /\ Merge(h, o)
          /\ Called("merge", h, NewHandle, [other |-> o])

SpecMerge == InitMerge /\ [][NextMerge]_vars

\* the Context a merge call was given as its argument (merge leaves it as it
\* was) and the Context the call returned
Other == ctxs[last.args.other]

Merged == ctxs[last.ret]

\* C11 (as claimed): the max_tokens of a.merge(b) is the smaller of the two
\* when both a and b have one (0 included), the one that is set when only one
\* of them has one, and absent when neither has one.
C11_MergedMaxTokensIsMin ==
    last.op = "merge" =>
        LET a == DictGet(Before.constraints, "max_tokens")
            b == DictGet(Other.constraints, "max_tokens")
            m == DictGet(Merged.constraints, "max_tokens")
        IN /\ (a # None /\ b # None) => m = Some(Min(a[1], b[1]))
           /\ (a # None /\ b = None) => m = a
           /\ (a = None /\ b # None) => m = b
           /\ (a = None /\ b = None) => m = None

\* C30: the max_tokens of a.merge(b) is the max_tokens of b.merge(a), for all
\* Contexts a and b whose max_tokens is absent or any integer >= 0: both
\* absent, or both the same value.
C30_MergedMaxTokensSymmetric ==
    \A a \in Handles, b \in Handles :
        DictGet(ContextMerge(ctxs[a], ctxs[b], heap, nextId).constraints, "max_tokens")
            = DictGet(ContextMerge(ctxs[b], ctxs[a], heap, nextId).constraints, "max_tokens")

StrTiny == [kind |-> "str", src |-> "T", len |-> 3]

InputArgSet == {[data |-> StrTiny, relevance |-> 5, tokens |-> None],
                [data |-> StrC, relevance |-> 9, tokens |-> Some(7)],
                [data |-> DictD, relevance |-> 9, tokens |-> None]}

DropSet == {{}, {"id"}, {"intent"}, {"inputs"}, {"created_at"}}

StampSet == {"iso", "z", "garbage"}

Stamped(text, stamp) ==
    CASE stamp = "iso" -> text
      [] stamp = "z" -> [text EXCEPT !.offset = "Z"]
      [] stamp = "garbage" -> [text EXCEPT !.wellformed = FALSE]

\* the document to_json wrote, without the fields of drop and with the
\* created_at text replaced
Document(json_str, drop, stamp) ==
    [k \in DOMAIN json_str \ drop |->
        IF k = "created_at" THEN Stamped(json_str[k], stamp) ELSE json_str[k]]

InitSerial ==
    /\ \E constraints \in {EmptyDict, [k \in {"max_tokens"} |-> 100]} :
          ctxs = [h \in {1} |->
                     ContextNew("analyze", Some("report"), constraints,
                                [k \in {"temperature"} |-> "0.7"],
                                EmptyDict, [k \in {"tags"} |-> 1], None, None, 1)]
    /\ heap = <<0>>
    /\ nextId = 2
    /\ last = [op |-> "create", h |-> 1]

NextSerial ==
    \/ \E h \in Handles, a \in InputArgSet :
          /\ Len(ctxs[h].inputs) < MaxCtxInputs
          /\ AddInput(h, a.data, a.relevance, a.tokens)
          /\ Called("add_input", h, h,
                    [data |-> a.data, relevance |-> a.relevance, tokens |-> a.tokens])
    \/ \E h \in Handles :
          /\ Prune(h, None, 7)
          /\ Called("prune", h, h, [max_tokens |-> None, relevance_threshold |-> 7])
    \/ \E h \in Handles :
          /\ Route(h, None, None, Some("cost_optimized"))
          /\ Called("route", h, h,
                    [model |-> None, provider |-> None, strategy |-> Some("cost_optimized")])
    \/ \E h \in Handles, intent \in {None, Some("summarize")} :
          /\ nextId <= MaxCtx
          /\ ExtendRebind(h, intent, EmptyDict)
          /\ Called("extend", h, h, [intent |-> intent, kwargs |-> EmptyDict])
    \/ \E h, o \in Handles :
          /\ nextId <= MaxCtx
          /\ Len(ctxs[h].inputs) + Len(ctxs[o].inputs) <= MaxInputs
          /\ MergeRebind(h, o)
          /\ Called("merge", h, h, [other |-> o])
    \/ \E h \in Handles, drop \in DropSet, stamp \in StampSet :
          LET json_str == Document(ToJson(ctxs[h], heap), drop, stamp)
          IN /\ stamp # "iso" => drop = {}
             /\ "id" \in drop => nextId <= MaxCtx
             /\ FromJsonCall(json_str)
             /\ Called("from_json", h, FromJson(json_str, nextId),
                       [drop |-> drop, stamp |-> stamp])

SpecSerial == InitSerial /\ [][NextSerial]_vars

\* C13: from_json(to_json(ctx)) returns a Context with the id, intent,
\* category, inputs (data, relevance and tokens of every unit, in order),
\* constraints, routing, output, metadata, parent_id and created_at of ctx,
\* for every Context that construction, add_input, prune, route, extend and
\* merge lead to.
C13_RoundTrip ==
    (last.op = "from_json" /\ last.args.drop = {} /\ last.args.stamp = "iso") =>
        /\ last.ret.ok
        /\ \A f \in {"id", "intent", "category", "inputs", "constraints", "routing",
                      "output", "metadata", "parent_id", "created_at"} :
              last.ret.ctx[f] = Before[f]

\* the round trip of a routed child of a merged Context, whose units have
\* the tokens given in the call and not the estimate
C13_Witness ==
    /\ last.op = "from_json"
    /\ last.args.drop = {}
    /\ last.args.stamp = "iso"
    /\ last.ret.ok
    /\ Len(Before.inputs) = 2
    /\ \A i \in 1..2 : /\ Before.inputs[i].tokens = 7
                       /\ Before.inputs[i].tokens # EstimateTokens(Before.inputs[i].data)
    /\ "model" \in DOMAIN Before.routing
    /\ DOMAIN Before.metadata = {"tags"}
    /\ Before.parent_id # None
    /\ Before.created_at % 1000000 # 0
    /\ last.ret.ctx.inputs = Before.inputs
    /\ last.ret.ctx.created_at = Before.created_at

\* C17 (as claimed): from_json on a document that lacks one of the fields id,
\* intent, inputs, created_at, or whose created_at is no ISO date, raises an
\* error and returns no Context.
C17_FailsFast ==
    (last.op = "from_json" /\ (last.args.drop # {} \/ last.args.stamp = "garbage")) =>
        ~last.ret.ok

(* ----------------------------- execute alone -------------------------- *)

\* one Context built with one of the routings of RoutingSet, which receives
\* inputs, is routed and is executed with and without override_routing; the
\* adapter behind the Executor is the stub, or one that raises; duration is
\* what the two readings of time.time() differ by

OverrideSet == {None, Some(EmptyDict), Some([k \in {"model"} |-> "gpt-4"]),
                Some([k \in {"provider"} |-> "anthropic"])}

AdapterSet == {"stub", "ConnectionError"}

InitExec ==
    /\ \E routing \in RoutingSet :
          ctxs = [h \in {1} |-> ContextNew("analyze", None, EmptyDict, routing, EmptyDict,
                                           EmptyDict, None, None, 1)]
    /\ heap = <<>>
    /\ nextId = 2
    /\ last = [op |-> "create", h |-> 1]

NextExec ==
    \/ \E h \in Handles, data \in {StrC, DictD} :
          /\ Len(ctxs[h].inputs) < MaxCtxInputs
          /\ AddInput(h, data, 9, None)
          /\ Called("add_input", h, h, [data |-> data, relevance |-> 9, tokens |-> None])
    \/ \E h \in Handles :
          /\ Route(h, Some("claude-3-opus"), None, None)
          /\ Called("route", h, h,
                    [model |-> Some("claude-3-opus"), provider |-> None, strategy |-> None])
    \/ \E h \in Handles, system_prompt \in {None, Some("Be brief")},
          override_routing \in OverrideSet, adapter \in AdapterSet, duration \in {0, 2} :
          /\ Execute(h, "Analyze this data", system_prompt, override_routing, None)
          /\ Called("execute", h,
                    ContextExecute(ctxs[h], "Analyze this data", system_prompt,
                                   override_routing, None, adapter, duration),
                    [override_routing |-> override_routing, adapter |-> adapter])

SpecExec == InitExec /\ [][NextExec]_vars

\* the value routing key k resolves to in an execute call: override_routing's
\* when it holds k, else the Context's routing's, else the default
Resolved(k, default) ==
    IF last.args.override_routing # None /\ k \in DOMAIN last.args.override_routing[1]
    THEN last.args.override_routing[1][k]
    ELSE IF k \in DOMAIN Before.routing THEN Before.routing[k] ELSE default

\* C15: the envelope of every successful execute call has the Context's id as
\* context_id, model_used and provider_used resolved from override_routing,
\* else the Context's routing, else gpt-3.5-turbo and openai, and in metadata
\* the Context's intent, the number of its inputs and the sum of their tokens.
C15_Envelope ==
    (last.op = "execute" /\ last.ret.ok) =>
        LET r == last.ret.response
        IN /\ r.context_id = Before.id
           /\ r.model_used = Resolved("model", "gpt-3.5-turbo")
           /\ r.provider_used = Resolved("provider", "openai")
           /\ r.metadata.intent = Before.intent
           /\ r.metadata.input_count = Len(Before.inputs)
           /\ r.metadata.total_input_tokens = SumTokens(Before.inputs)

\* a call whose provider comes from override_routing and whose model comes
\* from the routing of the Context
C15_Witness ==
    /\ last.op = "execute"
    /\ last.ret.ok
    /\ last.args.override_routing = Some([k \in {"provider"} |-> "anthropic"])
    /\ "model" \in DOMAIN Before.routing
    /\ Before.routing["model"] = "claude-3-opus"
    /\ Len(Before.inputs) = 1
    /\ last.ret.response.model_used = "claude-3-opus"
    /\ last.ret.response.provider_used = "anthropic"
    /\ last.ret.response.metadata.total_input_tokens = 150

IntentSet == {"analyze", ""}

InitIntent ==
    /\ ctxs = [h \in {} |-> 0]
    /\ heap = <<>>
    /\ nextId = 1
    /\ last = [op |-> "init"]

NextIntent ==
    \/ \E intent \in IntentSet, constraints \in ConstraintsSet :
          /\ NewHandle <= MaxCtx
          /\ Create(intent, constraints, EmptyDict, FALSE)
          /\ last' = [op |-> "create", h |-> NewHandle]
    \/ \E h \in Handles, intent \in {None, Some(""), Some("summarize")} :
          /\ NewHandle <= MaxCtx
          /\ Extend(h, intent, EmptyDict)
          /\ Called("extend", h, NewHandle, [intent |-> intent, kwargs |-> EmptyDict])
    \/ \E h, o \in Handles :
          /\ NewHandle <= MaxCtx
          /\ Merge(h, o)
          /\ Called("merge", h, NewHandle, [other |-> o])

SpecIntent == InitIntent /\ [][NextIntent]_vars

\* C18 (as claimed): the intent of every Context there is, built by the
\* constructor, extend or merge, is a non-empty string; a construction with
\* an empty intent is rejected and leaves no Context.
C18_IntentNeverEmpty ==
    \A h \in Handles : ctxs[h].intent # ""

(* -------------------------------- the CLI ------------------------------ *)

\* budget_to_max_tokens called on budgets from 0 up and on known and unknown
\* models, and CopilotRunConfig built with every combination of the two
\* instruction options, its user_instructions read right after; the file
\* system holds notes.txt and nothing else

BudgetSet == {0, 1, 50, 6000, 50000, 100000, 50000000}

ModelNameSet == {"gpt-4o-mini", "gpt-4o", "gpt-4", "unknown-model"}

Files == [p \in {"notes.txt"} |-> "test instructions content"]

InstructionsSet == {None, Some(""), Some("custom")}

InstructionsFileSet == {None, Some("notes.txt"), Some("/nonexistent/file.txt")}

InitCli ==
    /\ ctxs = [h \in {} |-> 0]
    /\ heap = <<>>
    /\ nextId = 1
    /\ last = [op |-> "init"]

NextCli ==
    \/ \E budget_usd \in BudgetSet, model \in ModelNameSet :
          /\ BudgetCall(budget_usd, model)
          /\ last' = [op |-> "budget_to_max_tokens",
                      args |-> [budget_usd |-> budget_usd, model |-> model],
                      ret |-> budget_to_max_tokens(budget_usd, model)]
    \/ \E budget \in {-50000000, 0, 50000000}, instructions \in InstructionsSet,
          instructions_file \in InstructionsFileSet, env_model \in {None, Some("gpt-4o")} :
          LET made == CopilotRunConfig({"test"}, "matthew", budget, instructions,
                                       instructions_file, env_model, nextId)
          IN /\ nextId <= MaxCtx
             /\ ConfigCall({"test"}, "matthew", budget, instructions, instructions_file)
             /\ last' = [op |-> "CopilotRunConfig",
                         args |-> [budget |-> budget, instructions |-> instructions,
                                   instructions_file |-> instructions_file],
                         ret |-> made,
                         resolved |-> IF made.ok THEN user_instructions(made.config, Files)
                                      ELSE [ok |-> FALSE, error |-> made.error]]

SpecCli == InitCli /\ [][NextCli]_vars

\* C19 (as claimed): budget_to_max_tokens returns at least 1 for every budget
\* >= 0, 0 and very small budgets included, and for every model.
C19_AtLeastOneToken ==
    last.op = "budget_to_max_tokens" => last.ret >= 1

\* C20 (as claimed): user_instructions is the --instructions value when one
\* is given, else the content of the instructions file, else ""; giving both
\* is rejected with an error; and an instructions file that does not exist
\* raises ValueError "Instructions file not found".
C20_InstructionsResolved ==
    (last.op = "CopilotRunConfig" /\ last.args.budget > 0) =>
        LET i == last.args.instructions
            f == last.args.instructions_file
        IN /\ (i # None /\ f # None) => ~last.ret.ok
           /\ (i # None /\ f = None) => last.resolved = [ok |-> TRUE, value |-> i[1]]
           /\ (i = None /\ f # None /\ f[1] \in DOMAIN Files) =>
                 last.resolved = [ok |-> TRUE, value |-> Files[f[1]]]
           /\ (i = None /\ f = None) => last.resolved = [ok |-> TRUE, value |-> ""]
           /\ (i = None /\ f # None /\ f[1] \notin DOMAIN Files) =>
                 /\ ~last.resolved.ok
                 /\ last.resolved.error = "Instructions file not found"

(* ------------------------- the whole Context API ----------------------- *)

\* every operation on up to MaxCtx Context objects, in any order; no call
\* record is kept here (last stays as it is), the properties of this
\* specification compare a state with its successor

Init ==
    /\ ctxs = [h \in {} |-> 0]
    /\ heap = <<>>
    /\ nextId = 1
    /\ last = [op |-> "init"]

Next ==
    \/ \E tags \in BOOLEAN :
          /\ NewHandle <= MaxCtx
          /\ Create("analyze", [k \in {"max_tokens"} |-> 100], EmptyDict, tags)
          /\ UNCHANGED last
    \/ \E h \in Handles :
          /\ Len(ctxs[h].inputs) < MaxCtxInputs
          /\ AddInput(h, DictD, 9, None)
          /\ UNCHANGED last
    \/ \E h \in Handles :
          /\ Prune(h, None, 0)
          /\ UNCHANGED last
    \/ \E h \in Handles :
          /\ Route(h, Some("gpt-4"), None, None)
          /\ UNCHANGED last
    \/ \E h \in Handles, intent \in {None, Some("summarize")},
          kwargs \in {EmptyDict, [k \in {"category"} |-> Some("report")]} :
          /\ NewHandle <= MaxCtx
          /\ Extend(h, intent, kwargs)
          /\ UNCHANGED last
    \/ \E h, o \in Handles :
          /\ NewHandle <= MaxCtx
          /\ Merge(h, o)
          /\ UNCHANGED last
    \/ \E h \in Handles, k \in {"tags"} :
          /\ k \in DOMAIN ctxs[h].metadata
          /\ MutateNested(h, k)
          /\ UNCHANGED last

Spec == Init /\ [][Next]_vars

\* C10 (as claimed): extend and merge leave every field of every existing
\* Context as it was, and the Contexts share no mutable state: a call on one
\* Context, or a change to one of its values, changes what is seen through
\* that Context only.
C10_NoSharedState ==
    [][/\ Handles # DOMAIN ctxs' =>
             \A h \in Handles : View(ctxs'[h], heap') = View(ctxs[h], heap)
       /\ Cardinality({h \in Handles : View(ctxs'[h], heap') # View(ctxs[h], heap)}) <= 1]_vars

====
